---- MODULE Spec2Model ----
(***************************************************************************)
(* Model of ssd_liverdet/ssd_multiphase_custom_fused.py: the builders      *)
(* (vgg, add_extras, multibox, build_ssd), the SSD detector (construction, *)
(* forward, load_weights) and the Detect decoder it calls in test phase.   *)
(* Tensors are modelled by their shape [ch, h] (square maps, one batch     *)
(* item); modules by their hyper-parameters.  Python indices are 0-based   *)
(* and are kept as such; At() does the translation.                        *)
(***************************************************************************)
EXTENDS Integers, Sequences, FiniteSets, TLC

VARIABLES ret, args, stdout, ran, net, params, lw, fwd, ex, dec

vars == <<ret, args, stdout, ran, net, params, lw, fwd, ex, dec>>

(***************************************************************************)
(* Layer-spec tokens.  The Python lists mix integers and the strings 'M',  *)
(* 'C', 'S'; the markers are encoded as negative integers.                 *)
(***************************************************************************)
M == -1
C == -2
S == -3

(***************************************************************************)
(* torch.nn modules, by hyper-parameters.                                  *)
(***************************************************************************)
Module(op, in, out, k, s, p, d, ceil) ==
    [op |-> op, in |-> in, out |-> out, k |-> k, s |-> s, p |-> p, d |-> d,
     ceil |-> ceil]

Conv2d(in, out, k, s, p, d) == Module("conv", in, out, k, s, p, d, FALSE)
ConvTranspose2d(in, out, k, s) == Module("deconv", in, out, k, s, 0, 1, FALSE)
MaxPool2d(k, s, p, ceil) == Module("pool", 0, 0, k, s, p, 1, ceil)
BatchNorm2d(n) == Module("bn", n, n, 0, 0, 0, 0, FALSE)
ReLU == Module("relu", 0, 0, 0, 0, 0, 0, FALSE)
L2Norm(n) == Module("l2norm", n, n, 0, 0, 0, 0, FALSE)

\* Evaluate e once and give its value to F (a local variable assignment).
Bind(e, F(_)) == CHOOSE r \in {F(v) : v \in {e}} : TRUE

\* Python sequence indexing: 0-based, negative indices count from the end.
At(seq, k) == IF k < 0 THEN seq[Len(seq) + k + 1] ELSE seq[k + 1]

\* Python extended slice seq[start::step].
RECURSIVE Slice(_, _, _)
Slice(seq, start, step) ==
    IF start >= Len(seq) THEN <<>>
    ELSE <<At(seq, start)>> \o Slice(seq, start + step, step)

(***************************************************************************)
(* vgg(cfg, i, batch_norm)                                                 *)
(***************************************************************************)
RECURSIVE vgg_loop(_, _, _, _)
vgg_loop(cfg, k, in_channels, batch_norm) ==
    IF k >= Len(cfg) THEN <<>>
    ELSE LET v == At(cfg, k) IN
         IF v = M THEN
             <<MaxPool2d(2, 2, 0, FALSE)>> \o vgg_loop(cfg, k + 1, in_channels, batch_norm)
         ELSE IF v = C THEN
             <<MaxPool2d(2, 2, 0, TRUE)>> \o vgg_loop(cfg, k + 1, in_channels, batch_norm)
         ELSE
             LET conv2d == Conv2d(in_channels, v, 3, 1, 1, 1) IN
             (IF batch_norm THEN <<conv2d, BatchNorm2d(v), ReLU>>
                            ELSE <<conv2d, ReLU>>)
             \o vgg_loop(cfg, k + 1, v, batch_norm)

vgg(cfg, i, batch_norm) ==
    LET pool5 == MaxPool2d(3, 1, 1, FALSE)
        conv6 == Conv2d(512, 1024, 3, 1, 6, 6)
        conv7 == Conv2d(1024, 1024, 1, 1, 0, 1)
    IN vgg_loop(cfg, 0, i, batch_norm) \o
       (IF batch_norm
        THEN <<pool5, conv6, BatchNorm2d(1024), ReLU, conv7, BatchNorm2d(1024), ReLU>>
        ELSE <<pool5, conv6, ReLU, conv7, ReLU>>)

(***************************************************************************)
(* add_extras(cfg, i, batch_norm).  The loop state is (layers,             *)
(* in_channels, flag); err records the exception Python raises when an 'S' *)
(* is the last entry (cfg[k + 1] is an IndexError) or is followed by       *)
(* another 'S' (nn.Conv2d rejects a string as output width).               *)
(***************************************************************************)
KernelOf(flag) == IF flag THEN 3 ELSE 1

\* Variant of add_extras_loop: the kernel flag is not toggled after an 'S'.
RECURSIVE add_extras_loop_flag(_, _, _, _, _)
add_extras_loop_flag(cfg, k, in_channels, flag, batch_norm) ==
    IF k >= Len(cfg) THEN [layers |-> <<>>, err |-> FALSE]
    ELSE LET v == At(cfg, k) IN
         IF in_channels # S THEN
             IF v = S THEN
                 IF k + 1 >= Len(cfg) \/ At(cfg, k + 1) = S
                 THEN [layers |-> <<>>, err |-> TRUE]
                 ELSE LET conv == Conv2d(in_channels, At(cfg, k + 1), KernelOf(flag), 2, 1, 1)
                          rest == add_extras_loop_flag(cfg, k + 1, v, flag, batch_norm)
                      IN [layers |-> (IF batch_norm
                                      THEN <<conv, BatchNorm2d(At(cfg, k + 1))>>
                                      ELSE <<conv>>) \o rest.layers,
                          err |-> rest.err]
             ELSE LET conv == Conv2d(in_channels, v, KernelOf(flag), 1, 0, 1)
                      rest == add_extras_loop_flag(cfg, k + 1, v, ~flag, batch_norm)
                  IN [layers |-> (IF batch_norm THEN <<conv, BatchNorm2d(v)>>
                                                ELSE <<conv>>) \o rest.layers,
                      err |-> rest.err]
         ELSE add_extras_loop_flag(cfg, k + 1, v, flag, batch_norm)

RECURSIVE add_extras_loop(_, _, _, _, _)
add_extras_loop(cfg, k, in_channels, flag, batch_norm) ==
    IF k >= Len(cfg) THEN [layers |-> <<>>, err |-> FALSE]
    ELSE LET v == At(cfg, k) IN
         IF in_channels # S THEN
             IF v = S THEN
                 IF k + 1 >= Len(cfg) \/ At(cfg, k + 1) = S
                 THEN [layers |-> <<>>, err |-> TRUE]
                 ELSE LET conv == Conv2d(in_channels, At(cfg, k + 1), KernelOf(flag), 2, 1, 1)
                          rest == add_extras_loop(cfg, k + 1, v, ~flag, batch_norm)
                      IN [layers |-> (IF batch_norm
                                      THEN <<conv, BatchNorm2d(At(cfg, k + 1))>>
                                      ELSE <<conv>>) \o rest.layers,
                          err |-> rest.err]
             ELSE LET conv == Conv2d(in_channels, v, KernelOf(flag), 1, 0, 1)
                      rest == add_extras_loop(cfg, k + 1, v, ~flag, batch_norm)
                  IN [layers |-> (IF batch_norm THEN <<conv, BatchNorm2d(v)>>
                                                ELSE <<conv>>) \o rest.layers,
                      err |-> rest.err]
         ELSE add_extras_loop(cfg, k + 1, v, flag, batch_norm)

add_extras(cfg, i, batch_norm) == add_extras_loop(cfg, 0, i, FALSE, batch_norm)

(***************************************************************************)
(* multibox(vgg, extra_layers, cfg, num_classes, batch_norm)               *)
(***************************************************************************)
vgg_source(batch_norm) == IF batch_norm THEN <<30, -3>> ELSE <<21, -2>>

HeadInputs(vggL, extra_layers, batch_norm) ==
    [k \in 1..2 |-> At(vggL, vgg_source(batch_norm)[k])] \o
    (IF batch_norm THEN Slice(extra_layers, 2, 4) ELSE Slice(extra_layers, 1, 2))

multibox(vggL, extra_layers, cfg, num_classes, batch_norm) ==
    Bind(HeadInputs(vggL, extra_layers, batch_norm), LAMBDA src :
        [vgg |-> vggL,
         extras |-> extra_layers,
         loc |-> [k \in 1..Len(src) |-> Conv2d(src[k].out, cfg[k] * 4, 3, 1, 1, 1)],
         conf |-> [k \in 1..Len(src) |->
                      Conv2d(src[k].out, cfg[k] * num_classes, 3, 1, 1, 1)]])

(***************************************************************************)
(* Module-level configuration tables.                                      *)
(***************************************************************************)
base == [s \in {"300", "512"} |->
           IF s = "300"
           THEN <<64, 64, M, 128, 128, M, 256, 256, 256, C, 512, 512, 512, M,
                  512, 512, 512>>
           ELSE <<>>]

extras == [s \in {"300", "512"} |->
             IF s = "300" THEN <<512, S, 1024, 256, S, 512, 256, 512, 256, 512>>
             ELSE <<>>]

mbox == [s \in {"300", "512"} |->
           IF s = "300" THEN <<6, 6, 6, 6, 4, 4>> ELSE <<>>]

(***************************************************************************)
(* Tensors: [n, ch, h, ok, calls].  n is the batch size, ch and h are the   *)
(* channel width and the (square) spatial size of each batch item; ok is   *)
(* FALSE once the tensor engine has raised; calls is the trace of module   *)
(* calls made so far, each a record [mod, idx] (idx is the position in a   *)
(* ModuleList, 0 for a plain attribute).                                   *)
(***************************************************************************)
Tensor(n, ch, h) == [n |-> n, ch |-> ch, h |-> h, ok |-> TRUE, calls |-> <<>>]

CeilDiv(a, b) == (a + b - 1) \div b

\* Output size of nn.Conv2d / nn.MaxPool2d / nn.ConvTranspose2d on size h.
ConvOut(m, h) == ((h + 2 * m.p - m.d * (m.k - 1) - 1) \div m.s) + 1

PoolOut(m, h) ==
    IF m.ceil
    THEN LET o == CeilDiv(h + 2 * m.p - m.k, m.s) + 1
         IN IF (o - 1) * m.s >= h + m.p THEN o - 1 ELSE o
    ELSE ((h + 2 * m.p - m.k) \div m.s) + 1

DeconvOut(m, h) == (h - 1) * m.s - 2 * m.p + m.d * (m.k - 1) + 1

\* m(x) for a tensor that has not raised; training is the module's mode
\* (nn.Module.training).
ApplyOk(m, x, training) ==
    IF m.op = "conv" THEN
        IF x.ch = m.in /\ x.h + 2 * m.p >= m.d * (m.k - 1) + 1
        THEN [x EXCEPT !.ch = m.out, !.h = ConvOut(m, x.h)]
        ELSE [x EXCEPT !.ok = FALSE]
    ELSE IF m.op = "deconv" THEN
        IF x.ch = m.in THEN [x EXCEPT !.ch = m.out, !.h = DeconvOut(m, x.h)]
        ELSE [x EXCEPT !.ok = FALSE]
    ELSE IF m.op = "pool" THEN
        \* the engine raises when the computed output size is below 1
        IF PoolOut(m, x.h) >= 1 THEN [x EXCEPT !.h = PoolOut(m, x.h)]
        ELSE [x EXCEPT !.ok = FALSE]
    ELSE IF m.op = "bn" THEN
        \* in training mode batch norm needs more than one value per channel
        IF x.ch = m.in /\ ~(training /\ x.n * x.h * x.h = 1) THEN x
        ELSE [x EXCEPT !.ok = FALSE]
    ELSE IF m.op = "l2norm" THEN
        IF x.ch = m.in THEN x ELSE [x EXCEPT !.ok = FALSE]
    ELSE IF m.op \in {"relu", "softmax", "detect"} THEN x
    ELSE [x EXCEPT !.ok = FALSE]    \* attribute was never set: AttributeError

\* m(x): the shape a module produces, or a raised error.
Apply(m, x, training) == Bind(x, LAMBDA v : ApplyOk(m, v, training))

\* self.<list>[k](x), recorded in the call trace; not reached once an earlier
\* call has raised.
CallAt(self, list, k, x) ==
    Bind(x, LAMBDA v :
        IF ~v.ok THEN v
        ELSE Apply(At(self[list], k),
                   [v EXCEPT !.calls = Append(@, [mod |-> list, idx |-> k])],
                   self.training))

\* self.<name>(x), recorded in the call trace; not reached once an earlier
\* call has raised.
Call(self, name, x) ==
    Bind(x, LAMBDA v :
        IF ~v.ok THEN v
        ELSE Apply(self[name],
                   [v EXCEPT !.calls = Append(@, [mod |-> name, idx |-> 0])],
                   self.training))

\* for k in range(lo, hi): x = self.<list>[k](x)
RECURSIVE RunRange(_, _, _, _, _)
RunRange(self, list, lo, hi, x) ==
    IF lo >= hi THEN x
    ELSE Bind(CallAt(self, list, lo, x),
              LAMBDA y : IF y.ok THEN RunRange(self, list, lo + 1, hi, y) ELSE y)

\* Tensor t, with the call trace as it stands after tensor tr was computed.
Then(t, tr) == [t EXCEPT !.calls = tr.calls, !.ok = t.ok /\ tr.ok]

\* a + b with broadcasting of size-1 dimensions.
Add(a, b) ==
    LET fits(p, q) == p = q \/ p = 1 \/ q = 1
        max(p, q) == IF p >= q THEN p ELSE q
    IN IF a.ok /\ b.ok /\ fits(a.ch, b.ch) /\ fits(a.h, b.h)
       THEN [b EXCEPT !.ch = max(a.ch, b.ch), !.h = max(a.h, b.h)]
       ELSE [b EXCEPT !.ok = FALSE]

(***************************************************************************)
(* class SSD                                                               *)
(***************************************************************************)
None == Module("none", 0, 0, 0, 0, 0, 0, FALSE)

\* Detect(num_classes, bkg_label, top_k, conf_thresh, nms_thresh); the two
\* thresholds are kept in hundredths (0.01 -> 1, 0.45 -> 45).
Detect(num_classes, bkg_label, top_k, conf_thresh, nms_thresh) ==
    [op |-> "detect", num_classes |-> num_classes, bkg_label |-> bkg_label,
     top_k |-> top_k, conf_thresh |-> conf_thresh, nms_thresh |-> nms_thresh]

NoDetect ==
    [op |-> "none", num_classes |-> 0, bkg_label |-> 0, top_k |-> 0,
     conf_thresh |-> 0, nms_thresh |-> 0]

\* Variant of self_detect: the two thresholds in each other's place.
self_detect_swapped(num_classes) == Detect(num_classes, 0, 200, 45, 1)

\* The modules SSD.__init__ creates with fixed hyper-parameters.
self_detect(num_classes) == Detect(num_classes, 0, 200, 1, 45)
\* Variant of fuse_deconv_53: kernel 3 instead of 2.
fuse_deconv_53_k3 == ConvTranspose2d(512, 512, 3, 2)

fuse_deconv_53 == ConvTranspose2d(512, 512, 2, 2)
fuse_conv_53 == Conv2d(512, 512, 3, 1, 1, 1)
fuse_conv_43 == Conv2d(512, 512, 3, 1, 1, 1)

\* SSD.__init__(phase, base, extras, head, num_classes, batch_norm)
SSD_init(phase, base_, extras_, head, num_classes, batch_norm) ==
    [training |-> TRUE,
     phase |-> phase,
     num_classes |-> num_classes,
     batch_norm |-> batch_norm,
     priors |-> "PriorBox(v2_custom)",
     size |-> 300,
     vgg |-> base_,
     L2Norm |-> L2Norm(512),
     extras |-> extras_,
     loc |-> head[1],
     conf |-> head[2],
     softmax |-> IF phase = "test" THEN Module("softmax", 0, 0, 0, 0, 0, 0, FALSE) ELSE None,
     detect |-> IF phase = "test" THEN self_detect(num_classes) ELSE NoDetect,
     fuse_deconv_53 |-> fuse_deconv_53,
     bn_fuse_deconv_53 |-> IF batch_norm THEN BatchNorm2d(512) ELSE None,
     fuse_conv_53 |-> fuse_conv_53,
     bn_fuse_conv_53 |-> IF batch_norm THEN BatchNorm2d(512) ELSE None,
     L2Norm_53 |-> L2Norm(512),
     fuse_conv_43 |-> fuse_conv_43,
     bn_fuse_conv_43 |-> IF batch_norm THEN BatchNorm2d(512) ELSE None]

NoNet == SSD_init("", <<>>, <<>>, <<(<<>>), (<<>>)>>, 0, FALSE)

Shape(t) == [ch |-> t.ch, h |-> t.h]

\* The extras loop of forward on st = [x, sources]: the running tensor and
\* the sources captured so far.  F.relu leaves the shape as it is.  The loop
\* ends where a call raises.
RECURSIVE ExtrasLoop(_, _, _)
ExtrasLoop(self, k, st) ==
    IF k >= Len(self.extras) \/ ~st.x.ok THEN st
    ELSE Bind(CallAt(self, "extras", k, st.x),
              LAMBDA y :
                  Bind([x |-> y,
                        sources |-> IF ~y.ok THEN st.sources
                                    ELSE IF ~self.batch_norm
                                    THEN (IF k % 2 = 1 THEN Append(st.sources, y)
                                                       ELSE st.sources)
                                    ELSE (IF k % 4 = 3 THEN Append(st.sources, y)
                                                       ELSE st.sources)],
                       LAMBDA st2 : ExtrasLoop(self, k + 1, st2)))

Min3(a, b, c) ==
    LET m == IF a <= b THEN a ELSE b IN IF m <= c THEN m ELSE c

\* for (x, l, c) in zip(sources, self.loc, self.conf): the flattened lengths
\* (per batch item) of the loc and conf outputs are accumulated (torch.cat
\* along dim 1); n counts the head pairs applied.  The loop ends where a call
\* raises.
RECURSIVE HeadsLoop(_, _, _, _)
HeadsLoop(self, sources, k, acc) ==
    IF k >= Min3(Len(sources), Len(self.loc), Len(self.conf)) \/ ~acc.t.ok THEN acc
    ELSE Bind(CallAt(self, "loc", k, Then(At(sources, k), acc.t)),
              LAMBDA l :
                  Bind(CallAt(self, "conf", k, Then(At(sources, k), l)),
                       LAMBDA c :
                           Bind(IF c.ok
                                THEN [t |-> c, n |-> acc.n + 1,
                                      loc |-> acc.loc + l.h * l.h * l.ch,
                                      conf |-> acc.conf + c.h * c.h * c.ch]
                                ELSE [acc EXCEPT !.t = c],
                                LAMBDA acc2 : HeadsLoop(self, sources, k + 1, acc2))))

\* The record of a forward call: whether it raised, the mode and the input
\* shape it ran with, the module calls made
\* (up to and including a raising one), the spatial sizes along the fusion
\* (fused: the sum of line 137 was computed), the sources captured, the head
\* pairs applied, and what was returned.
NoFwd ==
    [called |-> FALSE, raised |-> FALSE, training |-> FALSE, inN |-> 0, inH |-> 0,
     calls |-> <<>>, fused |-> FALSE,
     x_conv43 |-> 0, fuse_conv43 |-> 0, fuse_deconv53 |-> 0, fuse_conv53 |-> 0,
     s |-> 0, sources |-> <<>>, nheads |-> 0, nloc |-> 0, nconf |-> 0,
     kind |-> "", priors |-> ""]

\* The hard-coded backbone tap indices of forward.
idx_until_conv4_3(self) == IF self.batch_norm THEN 33 ELSE 23
idx_until_conv5_3(self) == IF self.batch_norm THEN 43 ELSE 30

\* The test of line 172: self.phase == "test"
InTestPhase(self) == self.phase = "test"

\* Lines 119-137 of forward: the two fusion branches and their sum.
FuseBranches(self, x_conv43, x_conv53) ==
    Bind(Call(self, "fuse_conv_43", Then(x_conv43, x_conv53)), LAMBDA f43 :
    Bind(IF self.batch_norm THEN Call(self, "bn_fuse_conv_43", f43) ELSE f43,
         LAMBDA fuse_conv43 :
    Bind(Call(self, "fuse_deconv_53", Then(x_conv53, fuse_conv43)), LAMBDA d53 :
    Bind(IF self.batch_norm THEN Call(self, "bn_fuse_deconv_53", d53) ELSE d53,
         LAMBDA fuse_deconv53 :
    Bind(Call(self, "fuse_conv_53", fuse_deconv53), LAMBDA c53 :
    Bind(IF self.batch_norm THEN Call(self, "bn_fuse_deconv_53", c53) ELSE c53,
         LAMBDA fuse_conv53 :
    Bind(Call(self, "L2Norm", Then(fuse_conv43, fuse_conv53)), LAMBDA l2_fuse_conv43 :
    Bind(Call(self, "L2Norm_53", Then(fuse_conv53, l2_fuse_conv43)),
         LAMBDA l2_fuse_conv53 :
        [fuse_conv43 |-> fuse_conv43, fuse_deconv53 |-> fuse_deconv53,
         fuse_conv53 |-> fuse_conv53,
         s |-> Add(l2_fuse_conv43, l2_fuse_conv53)]))))))))

\* Lines 172-185 of forward: what the call returns, with the record of what
\* it did before.
Output(self, x, x_conv43, f, e, hd, last) ==
    LET raised == ~(last.ok /\ hd.loc % 4 = 0 /\ self.num_classes > 0
                            /\ hd.conf % self.num_classes = 0)
        at(t) == IF t.ok THEN t.h ELSE 0
    IN [called |-> TRUE, raised |-> raised, training |-> self.training,
        inN |-> x.n, inH |-> x.h,
        calls |-> last.calls,
        fused |-> f.s.ok,
        x_conv43 |-> at(x_conv43), fuse_conv43 |-> at(f.fuse_conv43),
        fuse_deconv53 |-> at(f.fuse_deconv53), fuse_conv53 |-> at(f.fuse_conv53),
        s |-> at(f.s),
        sources |-> LET got == SelectSeq(e.sources, LAMBDA t : t.ok)
                    IN [k \in 1..Len(got) |-> Shape(got[k])],
        nheads |-> hd.n,
        nloc |-> IF raised THEN 0 ELSE hd.loc \div 4,
        nconf |-> IF raised THEN 0 ELSE hd.conf \div self.num_classes,
        kind |-> IF raised THEN ""
                 ELSE IF InTestPhase(self) THEN "detections" ELSE "raw",
        priors |-> IF raised THEN "" ELSE self.priors]

\* SSD.forward(x)
forward(self, x) ==
    Bind(RunRange(self, "vgg", 0, idx_until_conv4_3(self), x), LAMBDA x_conv43 :
    Bind(RunRange(self, "vgg", idx_until_conv4_3(self), idx_until_conv5_3(self) - 1,
                  x_conv43), LAMBDA x2 :
    Bind(CallAt(self, "vgg", idx_until_conv5_3(self), x2), LAMBDA x_conv53 :
    Bind(FuseBranches(self, x_conv43, x_conv53), LAMBDA f :
    Bind(RunRange(self, "vgg", idx_until_conv5_3(self), Len(self.vgg),
                  Then(x_conv53, f.s)), LAMBDA x3 :
    Bind(ExtrasLoop(self, 0, [x |-> x3, sources |-> <<f.s, x3>>]), LAMBDA e :
    Bind(HeadsLoop(self, e.sources, 0, [t |-> e.x, n |-> 0, loc |-> 0, conf |-> 0]),
         LAMBDA hd :
    Bind(IF InTestPhase(self)
         THEN Call(self, "detect", Call(self, "softmax", hd.t))
         ELSE hd.t, LAMBDA last :
        Output(self, x, x_conv43, f, e, hd, last)))))))))

(***************************************************************************)
(* SSD.load_weights(base_file).  Paths and extensions are sequences of     *)
(* one-character strings.                                                  *)
(***************************************************************************)
\* str.rfind, 1-based; 0 when the character does not occur.
rfind(p, c) ==
    LET hits == {i \in 1..Len(p) : p[i] = c}
    IN IF hits = {} THEN 0 ELSE CHOOSE i \in hits : \A j \in hits : j <= i

\* os.path.splitext(p): <<root, ext>>.  The extension starts at the last dot
\* of the last path component, leading dots of that component not counting.
splitext(p) ==
    LET sepIndex == rfind(p, "/")
        dotIndex == rfind(p, ".")
    IN IF dotIndex > sepIndex /\ \E j \in (sepIndex + 1)..(dotIndex - 1) : p[j] # "."
       THEN <<SubSeq(p, 1, dotIndex - 1), SubSeq(p, dotIndex, Len(p))>>
       ELSE <<p, <<>> >>

\* Python truth value of a str.
Truthy(str_) == Len(str_) > 0

DotPkl == <<".", "p", "k", "l">>
DotPth == <<".", "p", "t", "h">>

\* The condition of line 189: ext == '.pkl' or '.pth'
ExtAccepted(ext) == (ext = DotPkl) \/ Truthy(DotPth)

NoLw ==
    [called |-> FALSE, path |-> <<>>, ext |-> <<>>, read |-> FALSE, exc |-> "",
     before |-> "", after |-> ""]

\* load_weights on a model holding parameters `prm`; `file` is what the
\* file system holds at base_file: "missing", "corrupt" or "valid".
\* Returns the call record and what was printed.
load_weights(prm, base_file, file) ==
    LET ext == splitext(base_file)[2] IN
    IF ExtAccepted(ext)
    THEN IF file = "valid"
         THEN [lw |-> [called |-> TRUE, path |-> base_file, ext |-> ext, read |-> TRUE,
                       exc |-> "", before |-> prm, after |-> "pretrained"],
               out |-> <<"Loading weights into state dict...", "Finished!">>]
         ELSE [lw |-> [called |-> TRUE, path |-> base_file, ext |-> ext, read |-> TRUE,
                       exc |-> IF file = "missing" THEN "FileNotFoundError"
                                                   ELSE "UnpicklingError",
                       before |-> prm, after |-> prm],
               out |-> <<"Loading weights into state dict...">>]
    ELSE [lw |-> [called |-> TRUE, path |-> base_file, ext |-> ext, read |-> FALSE,
                  exc |-> "", before |-> prm, after |-> prm],
          out |-> <<"Sorry only .pth and .pkl files supported.">>]

(***************************************************************************)
(* build_ssd(phase, size, num_classes, batch_norm)                         *)
(***************************************************************************)
\* str(size) for the sizes used.
str(n) == IF n = 300 THEN "300" ELSE IF n = 512 THEN "512" ELSE "299"

\* Variant of build_ssd: the phase test joined with "or".
build_ssd_or(phase, size, num_classes, batch_norm) ==
    IF phase # "test" \/ phase # "train"
    THEN [ret |-> "None", out |-> <<"Error: Phase not recognized">>, ran |-> {},
          net |-> NoNet]
    ELSE IF size # 300
    THEN [ret |-> "None", out |-> <<"Error: Sorry only SSD300 is supported currently!">>,
          ran |-> {}, net |-> NoNet]
    ELSE Bind(vgg(base[str(size)], 12, batch_norm), LAMBDA v :
         Bind(add_extras(extras[str(size)], 1024, batch_norm), LAMBDA x :
         Bind(multibox(v, x.layers, mbox[str(size)], num_classes, batch_norm),
              LAMBDA m :
             [ret |-> "SSD", out |-> <<>>,
              ran |-> {"vgg", "add_extras", "multibox", "SSD"},
              net |-> SSD_init(phase, m.vgg, m.extras, <<m.loc, m.conf>>,
                               num_classes, batch_norm)])))

build_ssd(phase, size, num_classes, batch_norm) ==
    IF phase # "test" /\ phase # "train"
    THEN [ret |-> "None", out |-> <<"Error: Phase not recognized">>, ran |-> {},
          net |-> NoNet]
    ELSE IF size # 300
    THEN [ret |-> "None", out |-> <<"Error: Sorry only SSD300 is supported currently!">>,
          ran |-> {}, net |-> NoNet]
    ELSE Bind(vgg(base[str(size)], 12, batch_norm), LAMBDA v :
         Bind(add_extras(extras[str(size)], 1024, batch_norm), LAMBDA x :
         Bind(multibox(v, x.layers, mbox[str(size)], num_classes, batch_norm),
              LAMBDA m :
             [ret |-> "SSD", out |-> <<>>,
              ran |-> {"vgg", "add_extras", "multibox", "SSD"},
              net |-> SSD_init(phase, m.vgg, m.extras, <<m.loc, m.conf>>,
                               num_classes, batch_norm)])))

(***************************************************************************)
(* Inputs.                                                                 *)
(***************************************************************************)
Phases == {"train", "test", "val"}
Sizes == {300, 512, 299}
NumClasses == {2, 21}
InputSizes == {300, 299}
BatchSizes == {1, 2}
Files == {"missing", "corrupt", "valid"}
Paths ==
    { <<"w", ".", "p", "t", "h">>,
      <<"w", ".", "p", "k", "l">>,
      <<"w", ".", "t", "x", "t">>,
      <<"w">>,
      <<".", "p", "t", "h">>,
      <<"a", ".", "p", "t", "h", "/", "w">>,
      <<"w", ".", "p", "t", "h", ".", "b">> }

NoEx == [cfg |-> <<>>, i |-> 0, batch_norm |-> FALSE, done |-> FALSE,
         layers |-> <<>>, err |-> FALSE]
NoDec == [cands |-> <<>>, done |-> FALSE, out |-> <<>>]

(***************************************************************************)
(* The detector's life: one build_ssd call, then any sequence of           *)
(* load_weights and forward calls on the returned object.                  *)
(***************************************************************************)
Init ==
    /\ ret = "unset"
    /\ args = [phase |-> "", size |-> 0, num_classes |-> 0, batch_norm |-> FALSE]
    /\ stdout = <<>>
    /\ ran = {}
    /\ net = NoNet
    /\ params = ""
    /\ lw = NoLw
    /\ fwd = NoFwd
    /\ ex = NoEx
    /\ dec = NoDec

Build ==
    /\ ret = "unset"
    /\ \E phase \in Phases, size \in Sizes, num_classes \in NumClasses,
          batch_norm \in BOOLEAN :
          \E r \in {build_ssd(phase, size, num_classes, batch_norm)} :
          /\ args' = [phase |-> phase, size |-> size, num_classes |-> num_classes,
                      batch_norm |-> batch_norm]
          /\ ret' = r.ret
          /\ stdout' = r.out
          /\ ran' = r.ran
          /\ net' = r.net
          /\ params' = IF r.ret = "SSD" THEN "random" ELSE ""
    /\ UNCHANGED <<lw, fwd, ex, dec>>

LoadWeights ==
    /\ ret = "SSD"
    /\ \E base_file \in Paths, file \in Files :
          \E r \in {load_weights(params, base_file, file)} :
          /\ lw' = r.lw
          /\ stdout' = r.out
          /\ params' = r.lw.after
    /\ UNCHANGED <<ret, args, ran, net, fwd, ex, dec>>

Forward ==
    /\ ret = "SSD"
    /\ \E n \in BatchSizes, h \in InputSizes : fwd' = forward(net, Tensor(n, 12, h))
    /\ UNCHANGED <<ret, args, stdout, ran, net, params, lw, ex, dec>>

\* nn.Module.train(mode), inherited by SSD; eval() is train(False).
Train ==
    /\ ret = "SSD"
    /\ \E mode \in BOOLEAN : net' = [net EXCEPT !.training = mode]
    /\ UNCHANGED <<ret, args, stdout, ran, params, lw, fwd, ex, dec>>

Next == Build \/ LoadWeights \/ Forward \/ Train

Spec == Init /\ [][Next]_vars

(***************************************************************************)
(* Properties of the detector's life (checked under Spec).                 *)
(***************************************************************************)
Built == ret = "SSD"

\* The positions of the ModuleList `list` called by the last forward, in order.
CallsOf(list) ==
    LET sel == SelectSeq(fwd.calls, LAMBDA c : c.mod = list)
    IN [k \in 1..Len(sel) |-> sel[k].idx]

\* How often the last forward called the attribute `name`.
TimesCalled(name) == Cardinality({k \in 1..Len(fwd.calls) : fwd.calls[k].mod = name})

\* C1 (as claimed): a load_weights call on a path whose extension is neither
\* '.pth' nor '.pkl' prints the unsupported-format message, does not read the
\* file, raises nothing and leaves the parameters as they were.
C1_RejectsOtherExtensions ==
    (lw.called /\ lw.ext \notin {DotPth, DotPkl}) =>
        /\ stdout = <<"Sorry only .pth and .pkl files supported.">>
        /\ ~lw.read
        /\ lw.exc = ""
        /\ lw.after = lw.before
        /\ params = lw.before

\* C2: build_ssd returns a detector exactly when phase is "train" or "test"
\* and size is 300; otherwise it prints an error, returns None and runs none
\* of the builders.
C2_BuildOnlyValidConfig ==
    ret # "unset" =>
        /\ ret = "SSD" <=> (args.phase \in {"train", "test"} /\ args.size = 300)
        /\ ret = "SSD" => ran = {"vgg", "add_extras", "multibox", "SSD"}
        /\ ret # "SSD" =>
              /\ ret = "None"
              /\ net = NoNet
              /\ ran = {}
              /\ stdout \in { <<"Error: Phase not recognized">>,
                              <<"Error: Sorry only SSD300 is supported currently!">> }

C2_Witness == ret = "None" /\ args.phase = "test" /\ args.size = 512

\* C3 (as claimed): the phase of a built detector is the one given to
\* build_ssd and no later call changes it; softmax and Detect exist exactly
\* in phase "test"; every forward call on a 300x300 input calls softmax and
\* Detect (once each) exactly in phase "test", and in phase "train" it
\* returns the raw triple of loc, conf and the fixed priors.
C3_PhaseFixed ==
    /\ [](Built =>
            /\ net.phase = args.phase
            /\ net.detect.op = "detect" <=> net.phase = "test"
            /\ net.softmax.op = "softmax" <=> net.phase = "test"
            /\ (fwd.called /\ fwd.inH = 300) =>
                  /\ TimesCalled("softmax") = (IF net.phase = "test" THEN 1 ELSE 0)
                  /\ TimesCalled("detect") = (IF net.phase = "test" THEN 1 ELSE 0)
                  /\ net.phase = "test" => fwd.kind = "detections"
                  /\ net.phase = "train" =>
                        fwd.kind = "raw" /\ fwd.priors = net.priors)
    /\ [][Built => /\ net'.phase = net.phase
                   /\ net'.detect = net.detect
                   /\ net'.softmax = net.softmax
                   /\ ret' = ret]_vars

\* C4 (as claimed): for the default 300 configuration, with and without
\* normalization, there are six prior-count entries, six loc heads and six
\* conf heads, every forward call on a 300x300 input captures six sources and
\* applies all six head pairs, and the k-th loc and conf heads take the
\* channel width of the k-th source.
C4_SourcesMatchHeads ==
    Built =>
        /\ Len(mbox["300"]) = 6
        /\ Len(net.loc) = 6
        /\ Len(net.conf) = 6
        /\ (fwd.called /\ fwd.inH = 300) =>
              /\ Len(fwd.sources) = 6
              /\ fwd.nheads = 6
              /\ \A k \in 1..6 :
                    /\ net.loc[k].in = fwd.sources[k].ch
                    /\ net.conf[k].in = fwd.sources[k].ch
              /\ [k \in 1..6 |-> fwd.sources[k].ch] = <<512, 1024, 1024, 512, 512, 512>>

RECURSIVE SumPriors(_, _, _)
SumPriors(grids, boxes, k) ==
    IF k > Len(grids) THEN 0
    ELSE grids[k].h * grids[k].h * boxes[k] + SumPriors(grids, boxes, k + 1)

\* C5 (as claimed): on a 300x300 input the source grids are 38, 19, 10, 5, 3,
\* 1, and the number of 4-vectors of the loc output and of
\* num_classes-vectors of the conf output both equal the sum over the scales
\* of grid * grid * boxes_per_cell with boxes_per_cell = [6, 6, 6, 6, 4, 4].
C5_PriorCount ==
    (Built /\ fwd.called /\ fwd.inH = 300) =>
        /\ [k \in 1..Len(fwd.sources) |-> fwd.sources[k].h] = <<38, 19, 10, 5, 3, 1>>
        /\ mbox["300"] = <<6, 6, 6, 6, 4, 4>>
        /\ fwd.nloc = SumPriors(fwd.sources, mbox["300"], 1)
        /\ fwd.nconf = SumPriors(fwd.sources, mbox["300"], 1)
        /\ fwd.nloc = 11620

\* C6: in every forward call on a 300x300 input, with and without
\* normalization, in either mode and for either batch size, the fusion is
\* computed: the deep branch, after the transposed convolution and after the
\* 3x3 convolution, has the spatial size of the shallow branch after its 3x3
\* convolution, which is the size of the shallow tap itself; the sum is
\* well-formed and the fused source, the first one captured, has that size.
C6_FusionShape ==
    (Built /\ fwd.called /\ fwd.inH = 300) =>
        /\ fwd.fused
        /\ fwd.x_conv43 = 38
        /\ fwd.fuse_conv43 = fwd.x_conv43
        /\ fwd.fuse_deconv53 = fwd.x_conv43
        /\ fwd.fuse_conv53 = fwd.x_conv43
        /\ fwd.s = fwd.x_conv43
        /\ Len(fwd.sources) >= 1
        /\ fwd.sources[1] = [ch |-> 512, h |-> fwd.x_conv43]

C6_Witness ==
    /\ Built /\ net.batch_norm /\ fwd.called /\ fwd.inH = 300
    /\ fwd.fused /\ fwd.x_conv43 = 38 /\ fwd.s = 38

\* C8 (as claimed): a forward call that returns has applied the backbone
\* stages 0 .. len(vgg) - 1 in order, each exactly once.
C8_BackboneOnceInOrder ==
    (Built /\ fwd.called /\ ~fwd.raised) =>
        CallsOf("vgg") = [k \in 1..Len(net.vgg) |-> k - 1]

\* C9 (as claimed): with normalization, a forward call that returns has
\* applied each of the three fusion normalization stages exactly once, and
\* the stage applied after fuse_conv_53 is not the one applied after
\* fuse_deconv_53.
C9_DistinctFusionNorms ==
    (Built /\ net.batch_norm /\ fwd.called /\ ~fwd.raised) =>
        /\ TimesCalled("bn_fuse_conv_43") = 1
        /\ TimesCalled("bn_fuse_deconv_53") = 1
        /\ TimesCalled("bn_fuse_conv_53") = 1
        /\ \A i, j \in 1..(Len(fwd.calls) - 1) :
              (fwd.calls[i].mod = "fuse_deconv_53" /\ fwd.calls[j].mod = "fuse_conv_53")
                  => fwd.calls[i + 1].mod # fwd.calls[j + 1].mod

(***************************************************************************)
(* add_extras on its own: Init draws a layer spec, a start width and the   *)
(* normalization flag; AddExtras applies the builder.                      *)
(***************************************************************************)
MaxExtrasLen == 4
ExtrasTokens == {S, 256, 512}
StartWidths == {1024, 256}

SeqsUpTo(T, n) == UNION {[1..m -> T] : m \in 0..n}

ExtrasCfgs == SeqsUpTo(ExtrasTokens, MaxExtrasLen) \cup {extras["300"]}

InitExtras ==
    /\ ret = "unset"
    /\ args = [phase |-> "", size |-> 0, num_classes |-> 0, batch_norm |-> FALSE]
    /\ stdout = <<>>
    /\ ran = {}
    /\ net = NoNet
    /\ params = ""
    /\ lw = NoLw
    /\ fwd = NoFwd
    /\ dec = NoDec
    /\ \E cfg \in ExtrasCfgs, i \in StartWidths, batch_norm \in BOOLEAN :
          ex = [cfg |-> cfg, i |-> i, batch_norm |-> batch_norm, done |-> FALSE,
                layers |-> <<>>, err |-> FALSE]

AddExtras ==
    /\ ~ex.done
    /\ \E r \in {add_extras(ex.cfg, ex.i, ex.batch_norm)} :
          ex' = [ex EXCEPT !.done = TRUE, !.layers = r.layers, !.err = r.err]
    /\ UNCHANGED <<ret, args, stdout, ran, net, params, lw, fwd, dec>>

NextExtras == AddExtras

SpecExtras == InitExtras /\ [][NextExtras]_vars

\* Every 'S' of the spec is followed by a channel width.
WellFormed(cfg) ==
    \A q \in 1..Len(cfg) : cfg[q] = S => (q < Len(cfg) /\ cfg[q + 1] # S)

\* The entries that are to emit a convolution: all but those following an 'S'.
Emitters(cfg) ==
    LET pos == {q \in 1..Len(cfg) : q = 1 \/ cfg[q - 1] # S}
        nth[j \in 1..Cardinality(pos)] ==
            CHOOSE q \in pos : Cardinality({r \in pos : r < q}) = j - 1
    IN nth

\* C10: for a spec in which every 'S' is followed by a width, add_extras
\* raises nothing and emits one convolution per entry that does not follow
\* an 'S'; kernel sizes alternate 1, 3, 1, 3, ...; an 'S' gives a stride-2
\* padding-1 convolution whose output width is the next entry, a width gives
\* a stride-1 unpadded convolution of that width; input widths chain from the
\* start width; and each convolution is followed by one normalization stage
\* of its output width exactly when normalization is enabled.
C10_ExtrasLayers ==
    (ex.done /\ WellFormed(ex.cfg)) =>
        LET convs == SelectSeq(ex.layers, LAMBDA m : m.op = "conv")
            em == Emitters(ex.cfg)
            n == Len(convs)
        IN /\ ~ex.err
           /\ n = Len(em)
           /\ \A j \in 1..n :
                 /\ convs[j].k = (IF j % 2 = 1 THEN 1 ELSE 3)
                 /\ convs[j].in = (IF j = 1 THEN ex.i ELSE convs[j - 1].out)
                 /\ IF ex.cfg[em[j]] = S
                    THEN /\ convs[j].s = 2 /\ convs[j].p = 1
                         /\ convs[j].out = ex.cfg[em[j] + 1]
                    ELSE /\ convs[j].s = 1 /\ convs[j].p = 0
                         /\ convs[j].out = ex.cfg[em[j]]
           /\ IF ex.batch_norm
              THEN /\ Len(ex.layers) = 2 * n
                   /\ \A j \in 1..n :
                         /\ ex.layers[2 * j - 1] = convs[j]
                         /\ ex.layers[2 * j] = BatchNorm2d(convs[j].out)
              ELSE ex.layers = convs

C10_Witness ==
    /\ ex.done /\ ex.cfg = extras["300"] /\ ex.batch_norm /\ ex.i = 1024
    /\ Len(ex.layers) = 16

(***************************************************************************)
(* The Detect decoder that forward calls in test phase.  Its code is in    *)
(* the layers package; the model follows the decoder's specification:      *)
(* per batch item and per non-background class, drop the priors whose      *)
(* probability is below conf_thresh, sort the rest by probability          *)
(* (descending, stable), then greedily emit the best remaining box and     *)
(* drop the remaining boxes whose IoU with it exceeds nms_thresh, until    *)
(* none remain or top_k are emitted.  Candidates are the decoded boxes     *)
(* (integer corner coordinates) with their class probabilities in          *)
(* hundredths.                                                             *)
(***************************************************************************)
Box(x1, y1, x2, y2) == [x1 |-> x1, y1 |-> y1, x2 |-> x2, y2 |-> y2]

Area(b) == (b.x2 - b.x1) * (b.y2 - b.y1)

Intersection(a, b) ==
    LET max(p, q) == IF p >= q THEN p ELSE q
        min(p, q) == IF p <= q THEN p ELSE q
        w == min(a.x2, b.x2) - max(a.x1, b.x1)
        h == min(a.y2, b.y2) - max(a.y1, b.y1)
    IN IF w > 0 /\ h > 0 THEN w * h ELSE 0

\* IoU(a, b) > thr / 100
IoUAbove(a, b, thr) ==
    100 * Intersection(a, b) > thr * (Area(a) + Area(b) - Intersection(a, b))

\* Probability of candidate i for class cl (classes are numbered from 0).
Prob(cands, i, cl) == cands[i].conf[cl + 1]

\* Insert prior i into a sequence of priors sorted by descending probability,
\* after every prior of equal probability.
RECURSIVE InsertSorted(_, _, _, _)
InsertSorted(cands, cl, sorted, i) ==
    IF sorted = <<>> THEN <<i>>
    ELSE IF Prob(cands, Head(sorted), cl) >= Prob(cands, i, cl)
         THEN <<Head(sorted)>> \o InsertSorted(cands, cl, Tail(sorted), i)
         ELSE <<i>> \o sorted

RECURSIVE SortByProb(_, _, _)
SortByProb(cands, cl, idxs) ==
    IF idxs = <<>> THEN <<>>
    ELSE InsertSorted(cands, cl,
                      SortByProb(cands, cl, SubSeq(idxs, 1, Len(idxs) - 1)),
                      idxs[Len(idxs)])

RECURSIVE Suppress(_, _, _, _, _)
Suppress(cands, remaining, kept, top_k, nms_thresh) ==
    IF remaining = <<>> \/ Len(kept) >= top_k THEN kept
    ELSE LET best == Head(remaining)
             rest == SelectSeq(Tail(remaining),
                               LAMBDA j : ~IoUAbove(cands[best].box, cands[j].box, nms_thresh))
         IN Suppress(cands, rest, Append(kept, best), top_k, nms_thresh)

\* The detections of one class: records [idx, p, box] in emission order.
DetectClass(cfg, cands, cl) ==
    IF cl = cfg.bkg_label THEN <<>>
    ELSE LET all == [i \in 1..Len(cands) |-> i]
             passing == SelectSeq(all, LAMBDA i : Prob(cands, i, cl) >= cfg.conf_thresh)
             kept == Suppress(cands, SortByProb(cands, cl, passing), <<>>,
                              cfg.top_k, cfg.nms_thresh)
         IN [n \in 1..Len(kept) |->
                [idx |-> kept[n], p |-> Prob(cands, kept[n], cl), box |-> cands[kept[n]].box]]

\* Detect.forward for one batch item: the detections indexed by class.
Detect_forward(cfg, cands) ==
    [c \in 1..cfg.num_classes |-> DetectClass(cfg, cands, c - 1)]

MaxCand == 3
Boxes == {Box(0, 0, 4, 4), Box(1, 0, 5, 4), Box(2, 0, 6, 4), Box(0, 0, 3, 3), Box(0, 0, 4, 5)}
Probs == {0, 1, 50, 90}

\* One candidate of a two-class model: the softmax row and the decoded box.
Candidates == {[box |-> b, conf |-> <<100 - q, q>>] : b \in Boxes, q \in Probs}

InitDetect ==
    \E r \in {build_ssd("test", 300, 2, FALSE)} :
    /\ ret = r.ret
    /\ args = [phase |-> "test", size |-> 300, num_classes |-> 2, batch_norm |-> FALSE]
    /\ stdout = r.out
    /\ ran = r.ran
    /\ net = r.net
    /\ params = "random"
    /\ lw = NoLw
    /\ fwd = NoFwd
    /\ ex = NoEx
    /\ \E cands \in SeqsUpTo(Candidates, MaxCand) :
          dec = [cands |-> cands, done |-> FALSE, out |-> <<>>]

\* The tail of a test-phase forward: self.detect(loc, softmax(conf), priors).
DetectForward ==
    /\ ret = "SSD"
    /\ InTestPhase(net)
    /\ net.detect.op = "detect"
    /\ ~dec.done
    /\ dec' = [dec EXCEPT !.done = TRUE, !.out = Detect_forward(net.detect, dec.cands)]
    /\ UNCHANGED <<ret, args, stdout, ran, net, params, lw, fwd, ex>>

NextDetect == DetectForward

SpecDetect == InitDetect /\ [][NextDetect]_vars

Classes == 0..(net.num_classes - 1)
Priors == 1..Len(dec.cands)
Dets(cl) == dec.out[cl + 1]
Passes(i, cl) == Prob(dec.cands, i, cl) >= 1
Kept(i, cl) == \E n \in 1..Len(Dets(cl)) : Dets(cl)[n].idx = i
Overlap(i, j) == IoUAbove(dec.cands[i].box, dec.cands[j].box, 45)
RankedBefore(i, j, cl) ==
    \/ Prob(dec.cands, i, cl) > Prob(dec.cands, j, cl)
    \/ Prob(dec.cands, i, cl) = Prob(dec.cands, j, cl) /\ i < j

\* The output holds no detection below the confidence threshold, no two
\* detections of a class with IoU above the suppression threshold, and
\* nothing for the background class.
OutputClean ==
    /\ Len(dec.out) = net.num_classes
    /\ Dets(0) = <<>>
    /\ \A cl \in Classes \ {0} :
          /\ \A n \in 1..Len(Dets(cl)) :
                /\ Dets(cl)[n].idx \in Priors
                /\ Dets(cl)[n].p = Prob(dec.cands, Dets(cl)[n].idx, cl)
                /\ Dets(cl)[n].box = dec.cands[Dets(cl)[n].idx].box
                /\ Dets(cl)[n].p >= 1
          /\ \A n, m \in 1..Len(Dets(cl)) :
                n < m => /\ Dets(cl)[n].idx # Dets(cl)[m].idx
                         /\ ~IoUAbove(Dets(cl)[n].box, Dets(cl)[m].box, 45)
                         /\ Dets(cl)[n].p >= Dets(cl)[m].p

\* C7 (as claimed): of any two candidates of a class that pass the
\* confidence filter, the higher-probability one alone is kept when their IoU
\* is above the threshold, and both are kept when it is not.
C7_PairwiseSuppression ==
    dec.done =>
        /\ OutputClean
        /\ \A cl \in Classes \ {0} : \A i, j \in Priors :
              (i # j /\ Passes(i, cl) /\ Passes(j, cl)
                 /\ Prob(dec.cands, i, cl) > Prob(dec.cands, j, cl)) =>
                  IF Overlap(i, j) THEN Kept(i, cl) /\ ~Kept(j, cl)
                                   ELSE Kept(i, cl) /\ Kept(j, cl)

\* C7 (amended): a candidate that passes the confidence filter is kept
\* exactly when no kept candidate ranked before it (higher probability, or
\* equal probability and earlier prior) has IoU above the threshold with it.
\* So two passing candidates with IoU above the threshold are never both
\* kept, and when they are the only two that pass, the higher-probability one
\* alone is kept if their IoU is above the threshold and both are kept if not.
C7_GreedySuppression ==
    dec.done =>
        /\ OutputClean
        /\ \A cl \in Classes \ {0} : \A i \in Priors :
              /\ Kept(i, cl) => Passes(i, cl)
              /\ Passes(i, cl) =>
                    (Kept(i, cl) <=>
                        ~\E h \in Priors :
                            Kept(h, cl) /\ RankedBefore(h, i, cl) /\ Overlap(h, i))
        /\ \A cl \in Classes \ {0} : \A i, j \in Priors :
              (i # j /\ Passes(i, cl) /\ Passes(j, cl)) =>
                  /\ Overlap(i, j) => ~(Kept(i, cl) /\ Kept(j, cl))
                  /\ (Prob(dec.cands, i, cl) > Prob(dec.cands, j, cl)
                        /\ \A h \in Priors \ {i, j} : ~Passes(h, cl)) =>
                        IF Overlap(i, j) THEN Kept(i, cl) /\ ~Kept(j, cl)
                                         ELSE Kept(i, cl) /\ Kept(j, cl)

\* Three passing candidates where the middle one is suppressed by the best
\* and the lowest, which overlaps only the middle one, is kept.
C7_Witness ==
    /\ dec.done /\ Len(dec.cands) = 3
    /\ \A i \in Priors : Passes(i, 1)
    /\ Prob(dec.cands, 1, 1) > Prob(dec.cands, 2, 1)
    /\ Prob(dec.cands, 2, 1) > Prob(dec.cands, 3, 1)
    /\ Overlap(1, 2) /\ Overlap(2, 3) /\ ~Overlap(1, 3)
    /\ Kept(1, 1) /\ ~Kept(2, 1) /\ Kept(3, 1)

====
